---- MODULE Spec2Model ----
(***************************************************************************)
(* Fantasy snake draft simulator: the text parser (parsePlayerText), the   *)
(* snake draft assigner (generateSnakeDraft), the board display            *)
(* (DraftBoard) and the App component's state (raw text, data source,      *)
(* stored custom rankings, team count, picked set).                        *)
(*                                                                         *)
(* Strings are sequences of one-character strings.  Numbers read by        *)
(* parseInt are kept as decimal numerals [neg, mag] (mag: digits without   *)
(* leading zeros), since ranks may exceed any machine word; NaN is a       *)
(* value of its own.  The numerals the model reads are integers a double     *)
(* represents exactly, so the numeral is the value.                        *)
(***************************************************************************)
EXTENDS Integers, Sequences, FiniteSets, TLC

VARIABLES
    pc,             \* position of the parser and assigner runs
    text, result,   \* parsePlayerText: argument and returned value
    reText, reResult, \* the text written back from result, and its parse
    players,        \* the player sequence (App: useMemo of parsePlayerText)
    numTeams,       \* App state numTeams / generateSnakeDraft argument
    board,          \* value returned by generateSnakeDraft
    draftData,      \* App: useMemo of the draft board
    shown,          \* the cards DraftBoard renders, by round and column
    rawText, dataSource, pickedPlayers, error,   \* App state
    stored,         \* localStorage item 'customPlayerRankings'
    lastOp,         \* history: the handler that ran last
    lastEdit        \* history: the text of the last handleRawTextChange

parseVars == <<text, result, reText, reResult>>

draftVars == <<players, numTeams, board, shown, pickedPlayers>>

appVars == <<draftData, rawText, dataSource, error, stored, lastOp, lastEdit>>

vars == <<pc, parseVars, draftVars, appVars>>

----------------------------------------------------------------------------
(* Bounds *)

MaxLines == 3
MaxPieces == 4
MaxPlayers == 7
MaxTeams == 3

----------------------------------------------------------------------------
(* Characters and strings *)

SP == " "
NL == "\n"

IsWhiteSpace(c) == c \in {SP, NL}

DigitChars == <<"0", "1", "2", "3", "4", "5", "6", "7", "8", "9">>

IsDigit(c) == \E d \in 1..10 : DigitChars[d] = c

DigitVal(c) == (CHOOSE d \in 1..10 : DigitChars[d] = c) - 1

RECURSIVE Join(_, _)
Join(parts, sep) ==
    IF parts = <<>> THEN <<>>
    ELSE IF Len(parts) = 1 THEN parts[1]
    ELSE parts[1] \o sep \o Join(Tail(parts), sep)

\* String.prototype.trim
RECURSIVE TrimStart(_)
TrimStart(s) ==
    IF s # <<>> /\ IsWhiteSpace(s[1]) THEN TrimStart(Tail(s)) ELSE s

RECURSIVE TrimEnd(_)
TrimEnd(s) ==
    IF s # <<>> /\ IsWhiteSpace(s[Len(s)])
    THEN TrimEnd(SubSeq(s, 1, Len(s) - 1)) ELSE s

Trim(s) == TrimEnd(TrimStart(s))

\* String.prototype.split('\n')
RECURSIVE SplitNL(_)
SplitNL(s) ==
    IF \A i \in 1..Len(s) : s[i] # NL THEN <<s>>
    ELSE LET k == CHOOSE i \in 1..Len(s) :
                      s[i] = NL /\ \A j \in 1..(i - 1) : s[j] # NL
         IN  <<SubSeq(s, 1, k - 1)>> \o SplitNL(SubSeq(s, k + 1, Len(s)))

\* String.prototype.split(/\s+/)
RECURSIVE SplitWs(_)
SplitWs(s) ==
    IF \A i \in 1..Len(s) : ~IsWhiteSpace(s[i]) THEN <<s>>
    ELSE LET k == CHOOSE i \in 1..Len(s) :
                      IsWhiteSpace(s[i]) /\ \A j \in 1..(i - 1) : ~IsWhiteSpace(s[j])
             m == CHOOSE i \in k..Len(s) :
                      /\ \A j \in k..i : IsWhiteSpace(s[j])
                      /\ (i = Len(s) \/ ~IsWhiteSpace(s[i + 1]))
         IN  <<SubSeq(s, 1, k - 1)>> \o SplitWs(SubSeq(s, m + 1, Len(s)))

----------------------------------------------------------------------------
(* Numbers *)

NaN == [nan |-> TRUE, neg |-> FALSE, mag |-> <<>>]

RECURSIVE StripZeros(_)
StripZeros(ds) ==
    IF Len(ds) > 1 /\ ds[1] = 0 THEN StripZeros(Tail(ds)) ELSE ds

RECURSIVE DigitPrefix(_)
DigitPrefix(s) ==
    IF s # <<>> /\ IsDigit(s[1])
    THEN <<DigitVal(s[1])>> \o DigitPrefix(Tail(s)) ELSE <<>>

\* parseInt(s, 10): leading white space, an optional sign, then the longest
\* run of decimal digits; NaN when that run is empty.
ParseInt(s) ==
    LET t    == TrimStart(s)
        neg  == t # <<>> /\ t[1] = "-"
        body == IF t # <<>> /\ t[1] \in {"-", "+"} THEN Tail(t) ELSE t
        ds   == DigitPrefix(body)
    IN  IF ds = <<>> THEN NaN
        ELSE LET mag == StripZeros(ds)
             IN  [nan |-> FALSE, neg |-> neg /\ mag # <<0>>, mag |-> mag]

IsNaN(n) == n.nan

RECURSIVE NatToChars(_)
NatToChars(n) ==
    IF n < 10 THEN <<DigitChars[n + 1]>>
    ELSE NatToChars(n \div 10) \o <<DigitChars[(n % 10) + 1]>>

RECURSIVE DropTrailingZeros(_)
DropTrailingZeros(ds) ==
    IF ds # <<>> /\ ds[Len(ds)] = 0
    THEN DropTrailingZeros(SubSeq(ds, 1, Len(ds) - 1)) ELSE ds

DigitsToChars(ds) == [i \in 1..Len(ds) |-> DigitChars[ds[i] + 1]]

\* Number::toString of an integer value, as a template literal applies it:
\* plain digits below 10^21, exponent notation from 10^21 on.
NumberToString(n) ==
    LET sign == IF n.neg THEN <<"-">> ELSE <<>>
    IN  IF Len(n.mag) <= 21 THEN sign \o DigitsToChars(n.mag)
        ELSE LET frac == DropTrailingZeros(Tail(n.mag))
             IN  sign \o <<DigitChars[n.mag[1] + 1]>>
                      \o (IF frac = <<>> THEN <<>> ELSE <<".">> \o DigitsToChars(frac))
                      \o <<"e", "+">> \o NatToChars(Len(n.mag) - 1)

----------------------------------------------------------------------------
(* parsePlayerText *)

NoError == [kind |-> "null", line |-> <<>>]

MalformedLine(line) == [kind |-> "Malformed line detected", line |-> line]

CouldNotParse(line) == [kind |-> "Could not parse line", line |-> line]

\* parts.slice(1, -1).join(' '); NameOfAll is the variant slice(1), which
\* takes the position into the name
NameOfAll(parts) == Join(SubSeq(parts, 2, Len(parts)), <<SP>>)

NameOf(parts) == Join(SubSeq(parts, 2, Len(parts) - 1), <<SP>>)

\* The for loop over the lines, from the line lines[1] on; acc is the
\* players array pushed so far, and a return inside the loop ends it.
\* ParseLinesPartial is the variant that returns the players pushed so far
\* together with the error.
RECURSIVE ParseLinesPartial(_, _)
ParseLinesPartial(lines, acc) ==
    IF lines = <<>> THEN [players |-> acc, error |-> NoError]
    ELSE LET line == lines[1]
         IN  IF Trim(line) = <<>> THEN ParseLinesPartial(Tail(lines), acc)
             ELSE LET parts == SplitWs(Trim(line))
                  IN  IF Len(parts) < 3
                      THEN [players |-> acc, error |-> MalformedLine(line)]
                      ELSE LET rank     == ParseInt(parts[1])
                               position == parts[Len(parts)]
                               name     == NameOf(parts)
                           IN  IF IsNaN(rank) \/ name = <<>> \/ position = <<>>
                               THEN [players |-> acc, error |-> CouldNotParse(line)]
                               ELSE ParseLinesPartial(Tail(lines),
                                        Append(acc, [rank |-> rank, name |-> name,
                                                         position |-> position]))

RECURSIVE ParseLines(_, _)
ParseLines(lines, acc) ==
    IF lines = <<>> THEN [players |-> acc, error |-> NoError]
    ELSE LET line == lines[1]
         IN  IF Trim(line) = <<>> THEN ParseLines(Tail(lines), acc)
             ELSE LET parts == SplitWs(Trim(line))
                  IN  IF Len(parts) < 3
                      THEN [players |-> <<>>, error |-> MalformedLine(line)]
                      ELSE LET rank     == ParseInt(parts[1])
                               position == parts[Len(parts)]
                               name     == NameOf(parts)
                           IN  IF IsNaN(rank) \/ name = <<>> \/ position = <<>>
                               THEN [players |-> <<>>, error |-> CouldNotParse(line)]
                               ELSE ParseLines(Tail(lines),
                                        Append(acc, [rank |-> rank, name |-> name,
                                                         position |-> position]))

parsePlayerText(t) == ParseLines(SplitNL(Trim(t)), <<>>)

\* Writing the records back (not in the sources; the round-trip property
\* defines it): the line "{rank} {name} {position}" of a record as a
\* template literal gives it, and the lines of a sequence joined by '\n'.
SerializePlayer(p) ==
    NumberToString(p.rank) \o <<SP>> \o p.name \o <<SP>> \o p.position

SerializePlayers(ps) ==
    Join([i \in 1..Len(ps) |-> SerializePlayer(ps[i])], <<NL>>)

----------------------------------------------------------------------------
(* Inputs of the parser *)

SeqsUpTo(S, n) == UNION {[1..k -> S] : k \in 0..n}

\* 10^21 as a numeral
BigRank == <<"1">> \o [i \in 1..21 |-> "0"]

\* Pieces of a line: tokens, and the empty piece, which turns the single
\* spaces joining the pieces into leading, trailing and repeated white space.
Pieces == { <<>>, <<"7", ".">>, <<"Q", "B">> }

LinesUpTo(maxPieces) == { Join(ps, <<SP>>) : ps \in SeqsUpTo(Pieces, maxPieces) }

\* The lines around it: a well-formed line, a line of two tokens and a
\* well-formed line with the rank 10^21.
ContextLines ==
    { Join(<< <<"7", ".">>, <<"Q", "B">>, <<"Q", "B">> >>, <<SP>>),
      Join(<< <<"7", ".">>, <<"Q", "B">> >>, <<SP>>),
      Join(<< BigRank, <<"Q", "B">>, <<"Q", "B">> >>, <<SP>>) }

\* Texts of at most maxLines lines: one line is any line over the pieces,
\* the lines before and after it are context lines.
TextsUpTo(maxLines, maxPieces) ==
    { Join(ls, <<NL>>) : ls \in SeqsUpTo(ContextLines, maxLines) }
    \cup
    { Join(x[1] \o <<x[2]>> \o x[3], <<NL>>) :
        x \in { y \in SeqsUpTo(ContextLines, maxLines - 1) \X LinesUpTo(maxPieces)
                        \X SeqsUpTo(ContextLines, maxLines - 1) :
                    Len(y[1]) + Len(y[3]) < maxLines } }

----------------------------------------------------------------------------
(* Specification of the parser: parse a text, then write the records back  *)
(* and parse again.                                                        *)

NoResult == [players |-> <<>>, error |-> [kind |-> "none", line |-> <<>>]]

\* The parts of the state a specification does not use stay at these values.
IdleParse ==
    /\ text = <<>> /\ result = NoResult /\ reText = <<>> /\ reResult = NoResult

IdleDraft ==
    /\ players = <<>> /\ numTeams = 0 /\ board = <<>> /\ shown = <<>>
    /\ pickedPlayers = {}

IdleApp ==
    /\ draftData = <<>> /\ rawText = <<>> /\ dataSource = "none"
    /\ error = NoError /\ stored = [present |-> FALSE, value |-> <<>>]
    /\ lastOp = [op |-> "none", arg |-> <<>>, from |-> "none"]
    /\ lastEdit = [set |-> FALSE, text |-> <<>>]

InitParse ==
    /\ pc = "input"
    /\ text \in TextsUpTo(MaxLines, MaxPieces)
    /\ result = NoResult
    /\ reText = <<>>
    /\ reResult = NoResult
    /\ IdleDraft /\ IdleApp

Parse ==
    /\ pc = "input"
    /\ result' = parsePlayerText(text)
    /\ pc' = "parsed"
    /\ UNCHANGED <<text, reText, reResult, draftVars, appVars>>

Reparse ==
    /\ pc = "parsed"
    /\ result.error = NoError
    /\ reText' = SerializePlayers(result.players)
    /\ reResult' = parsePlayerText(SerializePlayers(result.players))
    /\ pc' = "reparsed"
    /\ UNCHANGED <<text, result, draftVars, appVars>>

NextParse == Parse \/ Reparse

SpecParse == InitParse /\ [][NextParse]_vars

----------------------------------------------------------------------------
(* generateSnakeDraft *)

\* null, the empty-slot marker
Null == [empty |-> TRUE]

\* {}, the mapping without teams
EmptyBoard == <<>>

\* Math.ceil(numPicks / numTeams); NumRoundsFloor is the variant Math.floor
NumRoundsFloor(numPicks, n) == numPicks \div n

NumRounds(numPicks, n) == (numPicks + n - 1) \div n

\* The team index of the player at index (the forEach callback);
\* TeamIndexForward is the variant without the reverse rounds
TeamIndexForward(index, n) == index % n

TeamIndex(index, n) ==
    LET round          == index \div n
        pickInRound    == index % n
        isForwardRound == round % 2 = 0
    IN  IF isForwardRound THEN pickInRound ELSE n - 1 - pickInRound

\* players.forEach from index on, over the rounds array
RECURSIVE PlaceFrom(_, _, _, _)
PlaceFrom(rounds, ps, index, n) ==
    IF index >= Len(ps) THEN rounds
    ELSE LET round     == index \div n
             teamIndex == TeamIndex(index, n)
         IN  IF round \in DOMAIN rounds /\ teamIndex < n
             THEN PlaceFrom([rounds EXCEPT ![round][teamIndex] = ps[index + 1]],
                            ps, index + 1, n)
             ELSE PlaceFrom(rounds, ps, index + 1, n)

\* A board is keyed by k for the label 'Team k'; a team's array and a round's
\* array are indexed from 0 as in the code.  generateSnakeDraftOneTeam is
\* the variant that takes a team count <= 0 as one team.
generateSnakeDraftOneTeam(ps, n) ==
    IF Len(ps) = 0 THEN EmptyBoard
    ELSE LET m         == IF n <= 0 THEN 1 ELSE n
             numRounds == NumRounds(Len(ps), m)
             empty     == [r \in 0..(numRounds - 1) |-> [t \in 0..(m - 1) |-> Null]]
             rounds    == PlaceFrom(empty, ps, 0, m)
         IN  [k \in 1..m |-> [r \in 0..(numRounds - 1) |-> rounds[r][k - 1]]]

generateSnakeDraft(ps, n) ==
    IF Len(ps) = 0 \/ n <= 0 THEN EmptyBoard
    ELSE LET numRounds == NumRounds(Len(ps), n)
             empty     == [r \in 0..(numRounds - 1) |-> [t \in 0..(n - 1) |-> Null]]
             rounds    == PlaceFrom(empty, ps, 0, n)
         IN  [k \in 1..n |-> [r \in 0..(numRounds - 1) |-> rounds[r][k - 1]]]

----------------------------------------------------------------------------
(* DraftBoard *)

\* Object.keys(boardData): the labels in insertion order
TeamKeys(boardData) == [i \in 1..Cardinality(DOMAIN boardData) |-> i]

\* overallPick of the cell (roundIndex, teamIndex); OverallPickForward is
\* the variant without the reverse rounds
OverallPickForward(roundIndex, teamIndex, n) == roundIndex * n + teamIndex + 1

OverallPick(roundIndex, teamIndex, n) ==
    LET isForwardRound == roundIndex % 2 = 0
        pickInRound    == IF isForwardRound THEN teamIndex ELSE n - 1 - teamIndex
    IN  roundIndex * n + pickInRound + 1

\* pickedPlayers.has(player.rank)
IsPicked(picked, player) == player.rank \in picked

\* The grid of cards: one PlayerCard or EmptyCard per round and column; no
\* card at all when the board has no teams.
DraftBoardCells(boardData, n, picked) ==
    LET teamKeys == TeamKeys(boardData)
    IN  IF Len(teamKeys) = 0 THEN <<>>
        ELSE LET numRounds == Cardinality(DOMAIN boardData[teamKeys[1]])
             IN  [roundIndex \in 0..(numRounds - 1) |->
                    [teamIndex \in 0..(Len(teamKeys) - 1) |->
                        LET player == boardData[teamKeys[teamIndex + 1]][roundIndex]
                        IN  IF player # Null
                            THEN [card |-> "PlayerCard", player |-> player,
                                  overallPick |-> OverallPick(roundIndex, teamIndex, n),
                                  isPicked |-> IsPicked(picked, player)]
                            ELSE [card |-> "EmptyCard", player |-> Null,
                                  overallPick |-> 0, isPicked |-> FALSE]]]

----------------------------------------------------------------------------
(* Specification of the assigner: assign a player sequence to teams, then  *)
(* render the board.                                                       *)

Num(ds) == [nan |-> FALSE, neg |-> FALSE, mag |-> ds]

PlayerPool ==
    { [rank |-> Num(<<1>>), name |-> <<"a">>, position |-> <<"Q", "B">>],
      [rank |-> Num(<<2>>), name |-> <<"b">>, position |-> <<"R", "B">>] }

TeamCounts == (-1)..MaxTeams

InitDraft ==
    /\ pc = "input"
    /\ players \in SeqsUpTo(PlayerPool, MaxPlayers)
    /\ numTeams \in TeamCounts
    /\ board = <<>>
    /\ shown = <<>>
    /\ pickedPlayers = {}
    /\ IdleParse /\ IdleApp

Generate ==
    /\ pc = "input"
    /\ board' = generateSnakeDraft(players, numTeams)
    /\ pc' = "generated"
    /\ UNCHANGED <<players, numTeams, shown, pickedPlayers, parseVars, appVars>>

Render ==
    /\ pc = "generated"
    /\ shown' = DraftBoardCells(board, numTeams, pickedPlayers)
    /\ pc' = "rendered"
    /\ UNCHANGED <<players, numTeams, board, pickedPlayers, parseVars, appVars>>

NextDraft == Generate \/ Render

SpecDraft == InitDraft /\ [][NextDraft]_vars

----------------------------------------------------------------------------
(* App *)

Str(toks) == Join(toks, <<SP>>)

\* The preset lists imported from './constants'.  Their contents lie outside
\* the sources at hand; three distinct well-formed lists stand for them.
SLEEPER_PLAYER_LIST ==
    Join(<< Str(<< <<"1">>, <<"a">>, <<"Q", "B">> >>),
            Str(<< <<"2">>, <<"b">>, <<"R", "B">> >>),
            Str(<< <<"3">>, <<"c">>, <<"W", "R">> >>) >>, <<NL>>)

YAHOO_PLAYER_LIST ==
    Join(<< Str(<< <<"1">>, <<"b">>, <<"R", "B">> >>),
            Str(<< <<"2">>, <<"a">>, <<"Q", "B">> >>) >>, <<NL>>)

ESPN_PLAYER_LIST ==
    Join(<< Str(<< <<"1">>, <<"c">>, <<"W", "R">> >>),
            Str(<< <<"2">>, <<"a">>, <<"Q", "B">> >>) >>, <<NL>>)

DataSources == {"Sleeper", "Yahoo", "ESPN", "Custom"}

\* The texts the text area hands to handleRawTextChange: the empty text, a
\* list, the same list with trailing white space, a list with a shared
\* rank, and a malformed text.
EditTexts ==
    LET l1 == Str(<< <<"7">>, <<"a">>, <<"Q", "B">> >>)
        l2 == Str(<< <<"8">>, <<"b">>, <<"R", "B">> >>)
        l3 == Str(<< <<"7">>, <<"c">>, <<"W", "R">> >>)
    IN  { <<>>,
          Join(<<l1, l2>>, <<NL>>),
          Join(<<l1, l2>>, <<NL>>) \o <<SP>>,
          Join(<<l1, l2, l3>>, <<NL>>),
          Str(<< <<"7">>, <<"a">> >>) }

\* localStorage.getItem('customPlayerRankings') || fallback
NoItem == [present |-> FALSE, value |-> <<>>]

Item(t) == [present |-> TRUE, value |-> t]

GetItemOr(item, fallback) ==
    IF item.present /\ item.value # <<>> THEN item.value ELSE fallback

\* useEffect on [rawText, dataSource]: runs when either changed, and writes
\* the text only while the data source is 'Custom'; StorageEffectAlways is
\* the variant without that condition
StorageEffectAlways(item, oldText, oldSource, newText, newSource) ==
    IF newText # oldText \/ newSource # oldSource THEN Item(newText) ELSE item

StorageEffect(item, oldText, oldSource, newText, newSource) ==
    IF (newText # oldText \/ newSource # oldSource) /\ newSource = "Custom"
    THEN Item(newText) ELSE item

\* useEffect on [rawText]: setPickedPlayers(new Set())
ResetEffect(picked, oldText, newText) ==
    IF newText # oldText THEN {} ELSE picked

\* useMemo of the draft board
DraftData(ps, n) ==
    IF Len(ps) > 0 THEN generateSnakeDraft(ps, n) ELSE EmptyBoard

\* The updater of handleTogglePlayerPicked; TogglePickedAdd is the variant
\* that only adds
TogglePickedAdd(prevPicked, playerRank) == prevPicked \cup {playerRank}

TogglePicked(prevPicked, playerRank) ==
    IF playerRank \in prevPicked THEN prevPicked \ {playerRank}
    ELSE prevPicked \cup {playerRank}

\* The ranks of the PlayerCards on screen: the arguments onTogglePicked
\* can be called with
CardRanks(cells) ==
    {cells[r][t].player.rank : <<r, t>> \in
        {c \in (DOMAIN cells) \X (0..MaxTeams + 10) :
             c[2] \in DOMAIN cells[c[1]] /\ cells[c[1]][c[2]].card = "PlayerCard"}}

\* One render after the state setters of a handler, with the effects it
\* triggers: the state after the handler has settled.
Settle(newText, newSource, newTeams, newPicked) ==
    LET parsed == parsePlayerText(newText)
        picked == ResetEffect(newPicked, rawText, newText)
        data   == DraftData(parsed.players, newTeams)
    IN  /\ rawText' = newText
        /\ dataSource' = newSource
        /\ numTeams' = newTeams
        /\ players' = parsed.players
        /\ error' = parsed.error
        /\ stored' = StorageEffect(stored, rawText, dataSource, newText, newSource)
        /\ pickedPlayers' = picked
        /\ draftData' = data
        /\ shown' = DraftBoardCells(data, newTeams, picked)
        /\ UNCHANGED <<pc, parseVars, board>>

\* The state after the first render and its effects
Init ==
    /\ pc = "app"
    /\ stored \in {NoItem} \cup {Item(t) : t \in EditTexts}
    /\ rawText = GetItemOr(stored, SLEEPER_PLAYER_LIST)
    /\ dataSource = IF GetItemOr(stored, <<>>) # <<>> THEN "Custom" ELSE "Sleeper"
    /\ numTeams = 10
    /\ pickedPlayers = {}
    /\ players = parsePlayerText(rawText).players
    /\ error = parsePlayerText(rawText).error
    /\ draftData = DraftData(players, numTeams)
    /\ shown = DraftBoardCells(draftData, numTeams, pickedPlayers)
    /\ board = <<>>
    /\ lastOp = [op |-> "none", arg |-> <<>>, from |-> dataSource]
    /\ lastEdit = [set |-> FALSE, text |-> <<>>]
    /\ IdleParse

handleDataSourceChange(source) ==
    /\ pc = "app"
    /\ LET newText == CASE source = "Sleeper" -> SLEEPER_PLAYER_LIST
                        [] source = "Yahoo"   -> YAHOO_PLAYER_LIST
                        [] source = "ESPN"    -> ESPN_PLAYER_LIST
                        [] source = "Custom"  -> GetItemOr(stored, <<>>)
       IN  Settle(newText, source, numTeams, pickedPlayers)
    /\ lastOp' = [op |-> "source", arg |-> source, from |-> dataSource]
    /\ UNCHANGED lastEdit

handleRawTextChange(t) ==
    /\ pc = "app"
    /\ Settle(t, "Custom", numTeams, pickedPlayers)
    /\ lastOp' = [op |-> "edit", arg |-> t, from |-> dataSource]
    /\ lastEdit' = [set |-> TRUE, text |-> t]

setNumTeams(n) ==
    /\ pc = "app"
    /\ Settle(rawText, dataSource, n, pickedPlayers)
    /\ lastOp' = [op |-> "teams", arg |-> n, from |-> dataSource]
    /\ UNCHANGED lastEdit

handleTogglePlayerPicked(playerRank) ==
    /\ pc = "app"
    /\ playerRank \in CardRanks(shown)    \* only a PlayerCard calls it
    /\ Settle(rawText, dataSource, numTeams, TogglePicked(pickedPlayers, playerRank))
    /\ lastOp' = [op |-> "toggle", arg |-> playerRank, from |-> dataSource]
    /\ UNCHANGED lastEdit

\* The ranks of the lists above
Ranks == {Num(<<d>>) : d \in 1..9}

Next ==
    \/ \E source \in DataSources : handleDataSourceChange(source)
    \/ \E t \in EditTexts : handleRawTextChange(t)
    \/ \E n \in TeamCounts : setNumTeams(n)
    \/ \E r \in Ranks : handleTogglePlayerPicked(r)

Spec == Init /\ [][Next]_vars

----------------------------------------------------------------------------
(* Properties of the parser *)

\* The lines of a text and the white-space separated tokens of a line
InputLines(t) == SplitNL(t)

TokensOf(line) == SelectSeq(SplitWs(line), LAMBDA tok : tok # <<>>)

\* An optionally signed, non-empty run of decimal digits
IsIntegerToken(tok) ==
    LET body == IF tok # <<>> /\ tok[1] \in {"-", "+"} THEN Tail(tok) ELSE tok
    IN  body # <<>> /\ \A i \in 1..Len(body) : IsDigit(body[i])

\* A line the loop passes over without returning: blank, or three tokens
\* and more with a first token parseInt reads
PassesLine(line) ==
    \/ TokensOf(line) = <<>>
    \/ Len(TokensOf(line)) >= 3 /\ ~IsNaN(ParseInt(TokensOf(line)[1]))

\* C4 as claimed: any line of the input with fewer than 3 tokens makes the
\* parse fail with the MalformedLine error quoting that line and no players,
\* whatever the other lines are.  (Stated for the non-blank lines of the
\* trimmed text only, the reading most favourable to the claim.)
C4_AnyShortLineMalformed ==
    pc # "input" =>
        LET ls == InputLines(Trim(text))
        IN  \A i \in 1..Len(ls) :
                (TokensOf(ls[i]) # <<>> /\ Len(TokensOf(ls[i])) < 3) =>
                    /\ result.players = <<>>
                    /\ result.error = MalformedLine(ls[i])

\* C4 amended: any non-blank line with fewer than 3 tokens makes the parse
\* fail with no players; the error is the MalformedLine error quoting that
\* line, as it stands in the trimmed text, when every line before it is
\* blank or is a line of 3 tokens and more whose first token parseInt reads.
C4_FirstShortLineMalformed ==
    pc # "input" =>
        LET ls == InputLines(Trim(text))
        IN  \A i \in 1..Len(ls) :
                (TokensOf(ls[i]) # <<>> /\ Len(TokensOf(ls[i])) < 3) =>
                    /\ result.players = <<>>
                    /\ result.error # NoError
                    /\ (\A j \in 1..(i - 1) : PassesLine(ls[j])) =>
                            result.error = MalformedLine(ls[i])

\* A valid line, then a short line: the parse has failed on the second one.
C4_Witness ==
    /\ pc = "parsed"
    /\ LET ls == InputLines(Trim(text))
       IN  /\ Len(ls) = 2
           /\ Len(TokensOf(ls[1])) >= 3 /\ PassesLine(ls[1])
           /\ TokensOf(ls[2]) # <<>> /\ Len(TokensOf(ls[2])) < 3
           /\ result.error = MalformedLine(ls[2])

\* C5 as claimed: a line of 3 tokens and more whose first token is not an
\* integer makes the whole parse fail and return no players.
C5_NonIntegerRankRejected ==
    pc # "input" =>
        \A i \in 1..Len(InputLines(text)) :
            LET toks == TokensOf(InputLines(text)[i])
            IN  (Len(toks) >= 3 /\ ~IsIntegerToken(toks[1])) =>
                    /\ result.players = <<>>
                    /\ result.error # NoError

\* Every rank has at most 21 digits: it is below 10^21 in magnitude
AllRanksPlain(ps) == \A i \in 1..Len(ps) : Len(ps[i].rank.mag) <= 21

\* C6 as claimed: the text written back from the records of an accepted
\* text parses again, to the same player sequence.
C6_RoundTrip ==
    pc = "reparsed" =>
        /\ reResult.error = NoError
        /\ reResult.players = result.players

\* C6 amended: the round trip holds for every accepted text whose ranks are
\* all below 10^21 in magnitude.
C6_RoundTripPlainRanks ==
    (pc = "reparsed" /\ AllRanksPlain(result.players)) =>
        /\ reResult.error = NoError
        /\ reResult.players = result.players

\* Two records written back from a text whose white space was not normal.
C6_Witness ==
    /\ pc = "reparsed"
    /\ Len(result.players) = 2
    /\ AllRanksPlain(result.players)
    /\ reText # text
    /\ \E i \in 1..2 : Len(TokensOf(result.players[i].name)) = 2
    /\ reResult.players = result.players

----------------------------------------------------------------------------
(* Properties of the assigner and of the board *)

\* The cell the placement rule gives the player at zero-based index i
RuleRound(i, n) == i \div n

RuleTeam(i, n) ==
    IF (i \div n) % 2 = 0 THEN i % n ELSE n - 1 - (i % n)

Ceil(a, b) == IF a % b = 0 THEN a \div b ELSE (a \div b) + 1

Cells(b) == {<<k, r>> \in (DOMAIN b) \X (0..MaxPlayers + 1) : r \in DOMAIN b[k]}

\* C1: for teamCount >= 1 and a non-empty sequence, the player at index i is
\* in round floor(i / teamCount) at team i mod teamCount (even round) or
\* teamCount - 1 - (i mod teamCount) (odd round); distinct indices have
\* distinct cells; every other cell is null, and a null cell is in the last
\* round.
C1_SnakePlacement ==
    (pc # "input" /\ numTeams >= 1 /\ players # <<>>) =>
        LET n    == numTeams
            last == RuleRound(Len(players) - 1, n)
            cellOf(i) == <<RuleTeam(i, n) + 1, RuleRound(i, n)>>
            idx  == 0..(Len(players) - 1)
        IN  /\ \A i \in idx :
                   /\ cellOf(i) \in Cells(board)
                   /\ board[cellOf(i)[1]][cellOf(i)[2]] = players[i + 1]
            /\ \A i, j \in idx : cellOf(i) = cellOf(j) => i = j
            /\ \A c \in Cells(board) :
                   (\A i \in idx : cellOf(i) # c) =>
                       board[c[1]][c[2]] = Null /\ c[2] = last

\* Seven players over three teams: the third round holds one player and two
\* empty slots, the second round is filled in reverse.
C1_Witness ==
    /\ pc = "generated"
    /\ numTeams = 3 /\ Len(players) = 7
    /\ players[4] # players[6]
    /\ board[3][1] = players[4] /\ board[1][1] = players[6]
    /\ board[1][2] = players[7] /\ board[2][2] = Null /\ board[3][2] = Null

\* C2: for teamCount >= 1 and a non-empty sequence the board has exactly
\* teamCount teams, each of length ceil(playerCount / teamCount), and exactly
\* playerCount cells are not null.
C2_BoardShape ==
    (pc # "input" /\ numTeams >= 1 /\ players # <<>>) =>
        /\ DOMAIN board = 1..numTeams
        /\ \A k \in DOMAIN board :
               DOMAIN board[k] = 0..(Ceil(Len(players), numTeams) - 1)
        /\ Cardinality({c \in Cells(board) : board[c[1]][c[2]] # Null}) = Len(players)

\* A player count that is not a multiple of the team count.
C2_Witness ==
    /\ pc = "generated"
    /\ numTeams = 2 /\ Len(players) = 5
    /\ Cardinality(Cells(board)) = 6
    /\ Cardinality({c \in Cells(board) : board[c[1]][c[2]] = Null}) = 1

\* C3: the card of the player at input index i shows overall pick i + 1, so
\* the pick numbers of the cards are exactly 1..playerCount in input order.
C3_OverallPickMatchesPlacement ==
    (pc = "rendered" /\ numTeams >= 1 /\ players # <<>>) =>
        LET n == numTeams
            cards == {<<r, t>> \in (DOMAIN shown) \X (0..(n - 1)) :
                          shown[r][t].card = "PlayerCard"}
        IN  /\ \A i \in 0..(Len(players) - 1) :
                   LET c == shown[RuleRound(i, n)][RuleTeam(i, n)]
                   IN  /\ c.card = "PlayerCard"
                       /\ c.player = players[i + 1]
                       /\ c.overallPick = i + 1
            /\ Cardinality(cards) = Len(players)
            /\ {shown[c[1]][c[2]].overallPick : c \in cards} = 1..Len(players)

\* A rendered board with a reverse round: the last column of the second
\* round shows the pick that follows the last pick of the first round.
C3_Witness ==
    /\ pc = "rendered"
    /\ numTeams = 3 /\ Len(players) >= 6
    /\ shown[1][2].overallPick = 4
    /\ shown[1][0].overallPick = 6
    /\ shown[1][2].player = players[4]

----------------------------------------------------------------------------
(* Properties of the App *)

Presets == {"Sleeper", "Yahoo", "ESPN"}

PlayerCards(cells) ==
    {c \in (DOMAIN cells) \X (0..MaxTeams + 10) :
        c[2] \in DOMAIN cells[c[1]] /\ cells[c[1]][c[2]].card = "PlayerCard"}

\* C7 as claimed: the picked set is emptied whenever the parsed player
\* sequence changes, and a handler other than the toggle that leaves the
\* player sequence the same leaves the picked set unchanged.
C7_PickedFollowsPlayers ==
    [][ /\ (players' # players => pickedPlayers' = {})
        /\ ((players' = players /\ lastOp'.op # "toggle") =>
                pickedPlayers' = pickedPlayers) ]_vars

\* C8: a toggle flips the membership of its rank and of no other rank,
\* toggling the same rank again gives the picked set back, and the cards
\* whose picked display changes are exactly the cards of that rank.
C8_ToggleFlipsOneRank ==
    [][ lastOp'.op = "toggle" =>
          /\ \A r \in Ranks :
                 ((r \in pickedPlayers') # (r \in pickedPlayers)) <=> (r = lastOp'.arg)
          /\ TogglePicked(pickedPlayers', lastOp'.arg) = pickedPlayers
          /\ PlayerCards(shown') = PlayerCards(shown)
          /\ \A c \in PlayerCards(shown') :
                 /\ shown'[c[1]][c[2]].isPicked =
                        (shown'[c[1]][c[2]].player.rank \in pickedPlayers')
                 /\ (shown'[c[1]][c[2]].isPicked # shown[c[1]][c[2]].isPicked)
                        <=> (shown'[c[1]][c[2]].player.rank = lastOp'.arg) ]_vars

\* A toggle has removed a rank two cards share, and left another rank picked.
C8_Witness ==
    /\ lastOp.op = "toggle"
    /\ lastOp.arg \notin pickedPlayers
    /\ pickedPlayers # {}
    /\ \E c, d \in PlayerCards(shown) :
           /\ c # d
           /\ shown[c[1]][c[2]].player.rank = lastOp.arg
           /\ shown[d[1]][d[2]].player.rank = lastOp.arg

\* C9: generateSnakeDraft returns the empty mapping when the player sequence
\* is empty or teamCount <= 0, and the board the App derives is empty
\* whenever the parse has failed.
C9_EmptyBoard ==
    /\ (players = <<>> \/ numTeams <= 0) =>
           /\ generateSnakeDraft(players, numTeams) = EmptyBoard
           /\ draftData = EmptyBoard
    /\ error # NoError => (players = <<>> /\ draftData = EmptyBoard)

\* A team count of zero with players at hand: the board is empty and no
\* card is shown.
C9_Witness ==
    /\ lastOp.op = "teams"
    /\ numTeams <= 0
    /\ players # <<>>
    /\ draftData = EmptyBoard
    /\ shown = <<>>

\* C10: the stored text changes only in a step that ends with the data
\* source 'Custom'; after an edit to a non-empty text T the stored text is T
\* until the next edit, whatever presets are selected, and selecting
\* 'Custom' then sets the raw text to T.
C10_StoredCustomText ==
    [][ /\ (stored' # stored => dataSource' = "Custom")
        /\ ((lastEdit'.set /\ lastEdit'.text # <<>>) =>
                stored' = Item(lastEdit'.text))
        /\ ((lastOp'.op = "source" /\ lastEdit.set /\ lastEdit.text # <<>>) =>
                (lastOp'.arg = "Custom" => rawText' = lastEdit.text)) ]_vars

\* Back on 'Custom' from a preset, with the edited text restored.
C10_Witness ==
    /\ lastOp.op = "source"
    /\ lastOp.arg = "Custom"
    /\ lastOp.from \in Presets
    /\ lastEdit.set /\ lastEdit.text # <<>>
    /\ rawText = lastEdit.text
    /\ stored = Item(lastEdit.text)

====
